---- MODULE Spec2Model ----
(***************************************************************************)
(* Model of the wallet balance discovery tool.                             *)
(*                                                                         *)
(* The repository holds the program twice: the single-file program         *)
(* src/src/main.rs and the split program app.rs / wallet.rs / api.rs /     *)
(* utils.rs.  The variable build says which of the two is running; it      *)
(* never changes.                                                          *)
(*                                                                         *)
(* A string that holds base58 text is modelled by the bytes it decodes to   *)
(* together with its first four characters; the base58 alphabet conversion *)
(* itself is the bitcoin crate's and is not re-implemented.  SHA-256 and    *)
(* the secp256k1 point check are library primitives too: they are modelled *)
(* by small content- and length-sensitive stand-ins (Sha256d4, IsPoint).   *)
(***************************************************************************)
EXTENDS Integers, Sequences, FiniteSets, Bags, TLC

VARIABLES
    build,                    \* which of the two programs runs
    codec,                    \* the normalisation run alone (SpecCodec)
    xpub_input, balances, error, loading, current_page, has_more,
    total_addresses_checked,  \* the fields of WalletBalanceApp
    tasks,                    \* the check_balances futures on the runtime
    LAST_REQUEST,             \* the static of enforce_rate_limit
    sinceReturn,              \* ms since enforce_rate_limit last returned, -1: never
    lastGap,                  \* ms between its last two returns, -1: fewer than two
    lastDone,                 \* the request whose result update has just handled
    env                       \* what the user and the providers may still do

appVars == <<xpub_input, balances, error, loading, current_page, has_more,
             total_addresses_checked>>
vars == <<build, codec, appVars, tasks, LAST_REQUEST, sinceReturn, lastGap,
          lastDone, env>>

Builds == {"main", "lib"}

(***************************************************************************)
(* Bytes and the library primitives                                        *)
(***************************************************************************)
\* The largest seed from which key material is drawn.
MaxSeed == 2

\* The sum of the bytes lo..hi, the byte at position i weighted (i % k) + 1.
RECURSIVE WeightedSum(_, _, _, _)
WeightedSum(bytes, lo, hi, k) ==
    IF lo > hi THEN 0
    ELSE IF lo = hi THEN ((lo % k) + 1) * bytes[lo]
    ELSE LET mid == (lo + hi) \div 2
         IN WeightedSum(bytes, lo, mid, k) + WeightedSum(bytes, mid + 1, hi, k)

\* sha256::Hash::hash applied twice, first four bytes: a stand-in that
\* depends on every byte, on its position and on the length.
Sha256d4(bytes) ==
    LET n == Len(bytes)
        a == (7 + n + WeightedSum(bytes, 1, n, 1)) % 256
        b == (13 * n + 1 + WeightedSum(bytes, 1, n, 7)) % 256
    IN <<a, b, (a + 3 * b + 11) % 256, (5 * a + b + 101) % 256>>

\* secp256k1::PublicKey::from_slice: a compressed key starts with 02 or 03
\* and names a point of the curve (stand-in: a parity condition on the x bytes).
IsPoint(pk) ==
    /\ Len(pk) = 33
    /\ pk[1] \in {2, 3}
    /\ (pk[30] + pk[31] + pk[32] + pk[33]) % 3 # 0

\* The version bytes of the serialized extended keys.
TPUB_VERSION == <<4, 53, 135, 207>>
XPUB_VERSION == <<4, 136, 178, 30>>
VPUB_VERSION == <<4, 95, 28, 246>>
YPUB_VERSION == <<4, 157, 124, 178>>

\* The first four characters of the base58 text of an 82-byte serialization.
PrefixOf(bytes) ==
    IF Len(bytes) < 4 THEN "short"
    ELSE LET v == SubSeq(bytes, 1, 4)
         IN CASE v = TPUB_VERSION -> "tpub"
              [] v = XPUB_VERSION -> "xpub"
              [] v = VPUB_VERSION -> "vpub"
              [] v = YPUB_VERSION -> "ypub"
              [] OTHER -> "????"

\* A string: its first four characters, whether all of it is in the base58
\* alphabet, and the bytes it decodes to.
Str(prefix, b58, raw) == [prefix |-> prefix, b58 |-> b58, raw |-> raw]

Err(e) == [ok |-> FALSE, err |-> e]
Ok(v) == [ok |-> TRUE, val |-> v]

\* base58::decode
base58_decode(s) == IF s.b58 THEN Ok(s.raw) ELSE Err("base58: invalid character")

\* base58::encode
base58_encode(bytes) == Str(PrefixOf(bytes), TRUE, bytes)

\* base58::from_check (decode_check): the last four bytes are the checksum
\* of the others and are removed.
base58_from_check(s) ==
    IF ~s.b58 THEN Err("base58: invalid character")
    ELSE IF Len(s.raw) < 4 THEN Err("base58: too short")
    ELSE LET n == Len(s.raw)
             payload == SubSeq(s.raw, 1, n - 4)
         IN IF Sha256d4(payload) # SubSeq(s.raw, n - 3, n)
            THEN Err("base58: bad checksum")
            ELSE Ok(payload)

\* base58::encode_check
base58_encode_check(bytes) == base58_encode(bytes \o Sha256d4(bytes))

(***************************************************************************)
(* Extended key normalisation                                              *)
(***************************************************************************)
\* wallet.rs parse_xpub.  Indices are 1-based here: decoded[4..len-4] of the
\* source is SubSeq(decoded, 5, len - 4).
parse_xpub(xpub) ==
    IF xpub.prefix = "vpub"
    THEN LET d == base58_from_check(xpub)
         IN IF ~d.ok THEN Err("Failed to decode vpub")
            ELSE IF Len(d.val) < 78 THEN Err("Invalid extended public key length")
            ELSE LET decoded == d.val
                     key_material == SubSeq(decoded, 5, Len(decoded) - 4)
                     modified == TPUB_VERSION \o key_material
                     checksum == Sha256d4(modified)
                 IN Ok([network |-> "Testnet",
                        xpub_to_use |-> base58_encode_check(modified \o checksum)])
    ELSE IF xpub.prefix = "xpub"
    THEN Ok([network |-> "Bitcoin", xpub_to_use |-> xpub])
    ELSE Err("Unsupported extended public key format")

\* The inline conversion with the checksum taken of the key material alone.
inline_conversion_hashing_material(xpub) ==
    IF xpub.prefix = "vpub"
    THEN LET d == base58_decode(xpub)
         IN IF ~d.ok THEN Err("Failed to decode vpub")
            ELSE IF Len(d.val) < 78 THEN Err("Invalid extended public key length")
            ELSE LET decoded == d.val
                     key_material == SubSeq(decoded, 5, Len(decoded) - 4)
                     modified == TPUB_VERSION \o key_material
                     hash2 == Sha256d4(key_material)
                 IN Ok([network |-> "Testnet",
                        xpub_to_use |-> base58_encode(modified \o hash2)])
    ELSE IF xpub.prefix = "xpub"
    THEN Ok([network |-> "Bitcoin", xpub_to_use |-> xpub])
    ELSE Err("Unsupported extended public key format")

\* main.rs check_balances, the inline conversion
inline_conversion(xpub) ==
    IF xpub.prefix = "vpub"
    THEN LET d == base58_decode(xpub)
         IN IF ~d.ok THEN Err("Failed to decode vpub")
            ELSE IF Len(d.val) < 78 THEN Err("Invalid extended public key length")
            ELSE LET decoded == d.val
                     key_material == SubSeq(decoded, 5, Len(decoded) - 4)
                     modified == TPUB_VERSION \o key_material
                     hash2 == Sha256d4(modified)
                 IN Ok([network |-> "Testnet",
                        xpub_to_use |-> base58_encode(modified \o hash2)])
    ELSE IF xpub.prefix = "xpub"
    THEN Ok([network |-> "Bitcoin", xpub_to_use |-> xpub])
    ELSE Err("Unsupported extended public key format")

\* The normalisation of the running program.
Normalize(b, xpub) == IF b = "lib" THEN parse_xpub(xpub) ELSE inline_conversion(xpub)

\* ExtendedPubKey::from_str: base58check, 78 bytes, a known version, a key
\* that is a point.  The key is version, then 74 bytes of key material.
ExtendedPubKey_from_str(s) ==
    LET d == base58_from_check(s)
    IN IF ~d.ok THEN Err("Invalid extended public key: base58")
       ELSE IF Len(d.val) # 78 THEN Err("Invalid extended public key: length")
       ELSE IF SubSeq(d.val, 1, 4) \notin {TPUB_VERSION, XPUB_VERSION}
       THEN Err("Invalid extended public key: version")
       ELSE IF ~IsPoint(SubSeq(d.val, 46, 78))
       THEN Err("Invalid extended public key: secp256k1")
       ELSE Ok([version |-> SubSeq(d.val, 1, 4), material |-> SubSeq(d.val, 5, 78)])

(***************************************************************************)
(* The inputs a user may type                                              *)
(***************************************************************************)
VersionOf(prefix) ==
    CASE prefix = "vpub" -> VPUB_VERSION
      [] prefix = "xpub" -> XPUB_VERSION
      [] prefix = "tpub" -> TPUB_VERSION
      [] OTHER -> YPUB_VERSION

\* n bytes of key material: depth, fingerprint, child number, chain code and
\* a compressed public key (its first byte is at offset 42 of the material).
Material(seed, n) ==
    [i \in 1..n |-> IF i = 42 THEN 2 + (seed % 2) ELSE (seed * 30 + i * 11) % 256]

\* A typed key of n raw bytes (n >= 8): version, material, and a checksum
\* that is right (good) or has one byte changed.
TypedKey(prefix, n, seed, good) ==
    LET payload == VersionOf(prefix) \o Material(seed, n - 8)
        cs == Sha256d4(payload)
        tail == IF good THEN cs ELSE <<(cs[1] + 1) % 256, cs[2], cs[3], cs[4]>>
    IN Str(prefix, TRUE, payload \o tail)

RawLengths == {8, 77, 78, 79, 81, 82, 83, 86}

TypedKeys ==
    { TypedKey(p, n, seed, good) :
        p \in {"vpub", "xpub", "ypub"}, n \in RawLengths,
        seed \in 1..MaxSeed, good \in BOOLEAN }
    \cup { Str(p, FALSE, <<>>) : p \in {"vpub", "xpub", "ypub"} }

(***************************************************************************)
(* Error texts.  An error is the String the program builds; Chars gives     *)
(* its characters, which is what str::contains looks at.                   *)
(***************************************************************************)
Chars(e) ==
    CASE e = "API error: 429 Too Many Requests" ->
         <<"A", "P", "I", " ", "e", "r", "r", "o", "r", ":", " ", "4", "2", "9", " ", "T", "o", "o", " ", "M", "a", "n", "y", " ", "R", "e", "q", "u", "e", "s", "t", "s">>
      [] e = "Rate limit exceeded" ->
         <<"R", "a", "t", "e", " ", "l", "i", "m", "i", "t", " ", "e", "x", "c", "e", "e", "d", "e", "d">>
      [] e = "Failed to parse API response: expected value at line 1 column 1" ->
         <<"F", "a", "i", "l", "e", "d", " ", "t", "o", " ", "p", "a", "r", "s", "e", " ", "A", "P", "I", " ", "r", "e", "s", "p", "o", "n", "s", "e", ":", " ", "e", "x", "p", "e", "c", "t", "e", "d", " ", "v", "a", "l", "u", "e", " ", "a", "t", " ", "l", "i", "n", "e", " ", "1", " ", "c", "o", "l", "u", "m", "n", " ", "1">>
      [] e = "Failed to parse API response: missing field funded_txo_sum at line 1 column 18" ->
         <<"F", "a", "i", "l", "e", "d", " ", "t", "o", " ", "p", "a", "r", "s", "e", " ", "A", "P", "I", " ", "r", "e", "s", "p", "o", "n", "s", "e", ":", " ", "m", "i", "s", "s", "i", "n", "g", " ", "f", "i", "e", "l", "d", " ", "f", "u", "n", "d", "e", "d", "_", "t", "x", "o", "_", "s", "u", "m", " ", "a", "t", " ", "l", "i", "n", "e", " ", "1", " ", "c", "o", "l", "u", "m", "n", " ", "1", "8">>
      [] e = "Failed to parse API response: invalid type: string, expected u64 at line 1 column 42" ->
         <<"F", "a", "i", "l", "e", "d", " ", "t", "o", " ", "p", "a", "r", "s", "e", " ", "A", "P", "I", " ", "r", "e", "s", "p", "o", "n", "s", "e", ":", " ", "i", "n", "v", "a", "l", "i", "d", " ", "t", "y", "p", "e", ":", " ", "s", "t", "r", "i", "n", "g", ",", " ", "e", "x", "p", "e", "c", "t", "e", "d", " ", "u", "6", "4", " ", "a", "t", " ", "l", "i", "n", "e", " ", "1", " ", "c", "o", "l", "u", "m", "n", " ", "4", "2">>
      [] e = "API request failed: error sending request" ->
         <<"A", "P", "I", " ", "r", "e", "q", "u", "e", "s", "t", " ", "f", "a", "i", "l", "e", "d", ":", " ", "e", "r", "r", "o", "r", " ", "s", "e", "n", "d", "i", "n", "g", " ", "r", "e", "q", "u", "e", "s", "t">>

\* str::contains
contains(e, pat) ==
    \E k \in 1..(Len(Chars(e)) - Len(pat) + 1) :
        SubSeq(Chars(e), k, k + Len(pat) - 1) = pat

\* The guard of the middle match arm of check_balances
IsRateLimitError(e) ==
    \/ contains(e, <<"r", "a", "t", "e", " ", "l", "i", "m", "i", "t">>)
    \/ contains(e, <<"e", "x", "c", "e", "e", "d", "e", "d">>)

(***************************************************************************)
(* u64 arithmetic.  A u64 is four 16-bit limbs, the most significant first. *)
(***************************************************************************)
Limb == 65536

\* The largest of the small and the smallest of the large limb samples.
MaxLimbSample == 1

u64_ZERO == <<0, 0, 0, 0>>

\* a < b
u64_lt(a, b) ==
    \E i \in 1..4 : a[i] < b[i] /\ \A j \in 1..(i - 1) : a[j] = b[j]

\* u64::wrapping_sub: a - b modulo 2^64, limb by limb with borrow
u64_wrapping_sub(a, b) ==
    LET d4 == a[4] - b[4]
        b4 == IF d4 < 0 THEN 1 ELSE 0
        d3 == a[3] - b[3] - b4
        b3 == IF d3 < 0 THEN 1 ELSE 0
        d2 == a[2] - b[2] - b3
        b2 == IF d2 < 0 THEN 1 ELSE 0
        d1 == a[1] - b[1] - b2
    IN <<d1 % Limb, d2 % Limb, d3 % Limb, d4 % Limb>>

\* The operator - of u64: with overflow checks (a debug build) it panics
\* when b > a, without them (a release build) it wraps.
u64_sub(a, b, overflow_checks) ==
    IF u64_lt(a, b) /\ overflow_checks
    THEN [panic |-> TRUE, msg |-> "attempt to subtract with overflow"]
    ELSE [panic |-> FALSE, val |-> u64_wrapping_sub(a, b)]

\* u64::saturating_sub
u64_saturating_sub(a, b) ==
    [panic |-> FALSE, val |-> IF u64_lt(a, b) THEN u64_ZERO ELSE u64_wrapping_sub(a, b)]

\* balance_satoshis of get_address_balance (api.rs) and of
\* get_testnet_address_balance (main.rs).  The division by 100_000_000.0
\* that follows is of f64 and changes neither sign nor order.
balance_satoshis(b, funded, spent, overflow_checks) ==
    IF b = "lib" THEN u64_sub(funded, spent, overflow_checks)
    ELSE u64_saturating_sub(funded, spent)

LimbSamples == (0..MaxLimbSample) \cup {Limb - 1 - n : n \in 0..MaxLimbSample}

\* The totals a provider may report.
U64Samples ==
    { <<h, m, m, l>> : h \in LimbSamples, l \in LimbSamples, m \in {0, Limb - 1} }

(***************************************************************************)
(* The balance provider                                                    *)
(***************************************************************************)
\* What one HTTP GET may come back with: a 2xx answer with the address
\* statistics, a 429, a 2xx answer whose body says the limit is exceeded,
\* a 2xx answer that is not JSON, no answer at all; and the odd 2xx answers:
\* JSON without the two totals, JSON with a total that is a string, JSON
\* in which more is spent than funded.
OddResponses == {"nofields", "noninteger", "overspent"}

Responses == {"stats", "http429", "exceeded", "garbage", "transport"} \cup OddResponses

\* The chain statistics the provider reports for an address, in satoshis.
ChainStats(address) ==
    [funded_txo_sum |-> ((address.index % 3) + address.chain) * 50000,
     spent_txo_sum |-> (address.index % 3) * 20000]

\* A number below 2^31 as a u64.
U64(n) == <<0, 0, n \div Limb, n % Limb>>

\* JSON values at chain_stats.funded_txo_sum / chain_stats.spent_txo_sum
JsonU64(v) == [kind |-> "u64", val |-> v]
JsonString == [kind |-> "string"]
JsonAbsent == [kind |-> "absent"]

\* The chain_stats object of the 2xx JSON answer resp for an address.
ChainStatsJson(address, resp) ==
    LET funded == U64(ChainStats(address).funded_txo_sum)
        spent == U64(ChainStats(address).spent_txo_sum)
    IN CASE resp = "nofields" ->
              [funded_txo_sum |-> JsonAbsent, spent_txo_sum |-> JsonAbsent]
         [] resp = "noninteger" ->
              [funded_txo_sum |-> JsonU64(funded), spent_txo_sum |-> JsonString]
         [] resp = "overspent" ->
              [funded_txo_sum |-> JsonU64(spent),
               spent_txo_sum |-> JsonU64(U64(ChainStats(address).funded_txo_sum + 1))]
         [] OTHER ->
              [funded_txo_sum |-> JsonU64(funded), spent_txo_sum |-> JsonU64(spent)]

\* serde_json::Value::as_u64 followed by unwrap_or(0)
as_u64_unwrap_or_0(j) == IF j.kind = "u64" THEN j.val ELSE u64_ZERO

\* The panic of a future: it ends without a result.
Panic == [ok |-> FALSE, panic |-> TRUE]

Panicked(r) == "panic" \in DOMAIN r

\* api.rs get_address_balance, in satoshis: the answer is deserialized into
\* AddressData, whose two u64 fields must be there and be integers.
get_address_balance(address, resp, overflow_checks) ==
    CASE resp = "transport" -> Err("API request failed: error sending request")
      [] resp = "http429" -> Err("API error: 429 Too Many Requests")
      [] resp \in {"exceeded", "garbage"} ->
         Err("Failed to parse API response: expected value at line 1 column 1")
      [] OTHER ->
         LET data == ChainStatsJson(address, resp)
         IN IF data.funded_txo_sum.kind = "absent"
            THEN Err("Failed to parse API response: missing field funded_txo_sum at line 1 column 18")
            ELSE IF data.funded_txo_sum.kind # "u64" \/ data.spent_txo_sum.kind # "u64"
            THEN Err("Failed to parse API response: invalid type: string, expected u64 at line 1 column 42")
            ELSE LET r == balance_satoshis("lib", data.funded_txo_sum.val,
                                           data.spent_txo_sum.val, overflow_checks)
                 IN IF r.panic THEN Panic ELSE Ok(r.val)

\* main.rs get_testnet_address_balance, in satoshis: the answer is parsed
\* into a serde_json::Value and the two totals are read with unwrap_or(0).
get_testnet_address_balance(address, resp) ==
    CASE resp = "transport" -> Err("API request failed: error sending request")
      [] resp = "http429" -> Err("API error: 429 Too Many Requests")
      [] resp = "exceeded" -> Err("Rate limit exceeded")
      [] resp = "garbage" ->
         Err("Failed to parse API response: expected value at line 1 column 1")
      [] OTHER ->
         LET data == ChainStatsJson(address, resp)
             funded == as_u64_unwrap_or_0(data.funded_txo_sum)
             spent == as_u64_unwrap_or_0(data.spent_txo_sum)
         IN Ok(balance_satoshis("main", funded, spent, FALSE).val)

\* The endpoint a balance query for an address of the given network goes to:
\* base_url of get_address_balance, the url of get_testnet_address_balance.
ProviderUrl(b, network) ==
    IF b = "lib"
    THEN CASE network = "Bitcoin" -> "https://blockstream.info/api"
           [] network = "Testnet" -> "https://blockstream.info/testnet/api"
           [] OTHER -> "none"
    ELSE "https://blockstream.info/testnet/api"

\* The network whose chain an endpoint reports.
NetworkOf(url) ==
    CASE url = "https://blockstream.info/api" -> "Bitcoin"
      [] url = "https://blockstream.info/testnet/api" -> "Testnet"
      [] OTHER -> "none"

QueryBalance(b, address, resp, overflow_checks) ==
    IF b = "lib" THEN get_address_balance(address, resp, overflow_checks)
    ELSE get_testnet_address_balance(address, resp)

(***************************************************************************)
(* The application                                                         *)
(***************************************************************************)
\* WalletBalanceApp::new
addresses_per_page == 10

MIN_REQUEST_INTERVAL == 250

\* Instant::now().elapsed().as_millis(): the time since an instant taken in
\* the same expression.
InstantNowElapsedMs == 0

\* The time one Tick lets pass.
TickMs == MIN_REQUEST_INTERVAL

\* The first four characters of what the user may type.
TypedPrefix(name) ==
    CASE name \in {"xpub", "xpub, last character changed"} -> "xpub"
      [] name \in {"vpub", "vpub, last character changed"} -> "vpub"
      [] name = "ypub1234" -> "ypub"
      [] OTHER -> ""

\* What the user may type into the text input.
Typed(name) ==
    CASE name \in {"xpub", "vpub"} -> TypedKey(TypedPrefix(name), 82, 1, TRUE)
      [] name \in {"xpub, last character changed", "vpub, last character changed"} ->
         TypedKey(TypedPrefix(name), 82, 1, FALSE)
      [] name = "ypub1234" -> TypedKey(TypedPrefix(name), 8, 1, TRUE)
      [] OTHER -> Str(TypedPrefix(name), TRUE, <<>>)

TypedNames ==
    {"xpub", "vpub", "vpub, last character changed", "xpub, last character changed",
     "ypub1234"}

\* The budgets of the environment: presses of Check Balance, edits of the
\* text input, failing provider answers, the last page asked for, and 2xx
\* answers of the provider whose totals are odd.
\* One session with one press of Check Balance:
MaxEdits == 1
MaxFails == 1
MaxPage == 1
SessionEnv ==
    [checks |-> 1, edits |-> MaxEdits, fails |-> MaxFails, pages |-> MaxPage, odd |-> 0]

\* One session that loads page after page:
MaxDeepPage == 5
PagingEnv == [checks |-> 1, edits |-> 1, fails |-> 1, pages |-> MaxDeepPage, odd |-> 0]

\* Check Balance pressed again while a request is running:
RaceEnv == [checks |-> 2, edits |-> 1, fails |-> 0, pages |-> 1, odd |-> 0]

\* The key is edited again, also while a request is running:
StaleEnv == [checks |-> 1, edits |-> 2, fails |-> 0, pages |-> 1, odd |-> 0]

\* The provider gives one 2xx answer whose totals are missing, are not
\* integers, or are inconsistent (more spent than funded):
OddEnv == [checks |-> 1, edits |-> 1, fails |-> 0, pages |-> 1, odd |-> 1]

\* WalletBalanceApp::calculate_address_range
calculate_address_range(page) ==
    LET start == page * addresses_per_page
    IN <<start, start + addresses_per_page>>

\* The future Command::perform puts on the runtime: the arguments and locals
\* of check_balances, where it stands (pc), and for the record the number of
\* enforce_rate_limit calls and balance queries it has made, the endpoints it
\* has asked about the coordinate it is at, the last answer it got, the
\* coordinate at which a rate-limit error hit it (0: none), whether its
\* parsing of the key has been done and has failed, and the last odd answer
\* the provider gave it.
NewTask(xpub, range) ==
    [xpub |-> xpub, start_idx |-> range[1], end_idx |-> range[2], pc |-> "start",
     network |-> "none", key |-> 0, chain |-> 0, i |-> 0, now |-> 0, rem |-> 0,
     balances |-> <<>>, acquires |-> 0, queries |-> 0, attempts |-> <<>>,
     answer |-> "none", hit |-> 0, parsed |-> "not yet", odd |-> "none",
     res |-> Err("")]

\* The normalisation is not being run alone.
CodecIdle == [pc |-> "idle"]

NoRequest == [start_idx |-> -1, end_idx |-> -1, ok |-> FALSE, hit |-> 0]

\* WalletBalanceApp::new, and the statics
Constructed ==
    /\ build \in Builds
    /\ xpub_input = ""
    /\ balances = <<>>
    /\ error = <<>>
    /\ loading = FALSE
    /\ current_page = 0
    /\ has_more = TRUE
    /\ total_addresses_checked = 0
    /\ tasks = <<>>
    /\ LAST_REQUEST = 0
    /\ sinceReturn = -1
    /\ lastGap = -1
    /\ lastDone = NoRequest

Init == Constructed /\ codec = CodecIdle /\ env = SessionEnv

InitPaging == Constructed /\ codec = CodecIdle /\ env = PagingEnv

InitRace == Constructed /\ codec = CodecIdle /\ env = RaceEnv

InitStale == Constructed /\ codec = CodecIdle /\ env = StaleEnv

InitOdd == Constructed /\ codec = CodecIdle /\ env = OddEnv

\* update, Message::XpubInputChanged, with the counter left as it is.
XpubInputChangedKeepingTotal(value) ==
    /\ env.edits > 0
    /\ env' = [env EXCEPT !.edits = @ - 1]
    /\ xpub_input' = value
    /\ current_page' = 0
    /\ balances' = <<>>
    /\ has_more' = TRUE
    /\ lastDone' = NoRequest
    /\ UNCHANGED <<build, codec, error, loading, tasks, LAST_REQUEST, sinceReturn, lastGap,
                   total_addresses_checked>>

\* update, Message::XpubInputChanged
XpubInputChanged(value) ==
    /\ env.edits > 0
    /\ env' = [env EXCEPT !.edits = @ - 1]
    /\ xpub_input' = value
    /\ current_page' = 0
    /\ balances' = <<>>
    /\ has_more' = TRUE
    /\ total_addresses_checked' = 0
    /\ lastDone' = NoRequest
    /\ UNCHANGED <<build, codec, error, loading, tasks, LAST_REQUEST, sinceReturn, lastGap>>

\* update, Message::CheckBalance
CheckBalance ==
    /\ env.checks > 0
    /\ env' = [env EXCEPT !.checks = @ - 1]
    /\ loading' = TRUE
    /\ error' = <<>>
    /\ current_page' = 0
    /\ balances' = <<>>
    /\ has_more' = TRUE
    /\ total_addresses_checked' = 0
    /\ tasks' = Append(tasks, NewTask(xpub_input, calculate_address_range(0)))
    /\ lastDone' = NoRequest
    /\ UNCHANGED <<build, codec, xpub_input, LAST_REQUEST, sinceReturn, lastGap>>

\* The guard of update's Message::LoadMore arm.
MayLoadMore == ~loading /\ (build = "lib" \/ has_more)

\* update, Message::LoadMore.  view shows the button only while balances
\* is not empty.
LoadMore ==
    /\ balances # <<>>
    /\ MayLoadMore => current_page < env.pages
    /\ IF MayLoadMore
       THEN /\ loading' = TRUE
            /\ current_page' = current_page + 1
            /\ tasks' = Append(tasks,
                   NewTask(xpub_input, calculate_address_range(current_page + 1)))
       ELSE UNCHANGED <<loading, current_page, tasks>>
    /\ lastDone' = NoRequest
    /\ UNCHANGED <<build, codec, xpub_input, balances, error, has_more,
                   total_addresses_checked, LAST_REQUEST, sinceReturn, lastGap, env>>

\* has_more computed from the discovery horizon of 46 + 12 addresses.
HasMoreWithinHorizon(end_idx) == end_idx < 46 + 12

\* has_more after update has handled an Ok result for the page ending at end_idx
HasMoreAfterOk(end_idx) == TRUE

\* Option<String>: Some(format!("Error (showing partial results): {}", e))
SomeError(e) == <<"Error (showing partial results): ", e>>

Remove(seq, k) == SubSeq(seq, 1, k - 1) \o SubSeq(seq, k + 1, Len(seq))

\* update, Message::BalanceResult, with an Err arm that also empties the list.
BalanceResultClearingOnErr(k) ==
    /\ tasks[k].pc = "done"
    /\ loading' = FALSE
    /\ IF tasks[k].res.ok
       THEN /\ total_addresses_checked' = total_addresses_checked + Len(tasks[k].res.val)
            /\ balances' = balances \o tasks[k].res.val
            /\ has_more' = IF build = "main" THEN HasMoreAfterOk(tasks[k].end_idx)
                           ELSE has_more
            /\ UNCHANGED error
       ELSE /\ error' = SomeError(tasks[k].res.err)
            /\ balances' = <<>>
            /\ total_addresses_checked' = 0
            /\ UNCHANGED has_more
    /\ lastDone' = [start_idx |-> tasks[k].start_idx, end_idx |-> tasks[k].end_idx,
                    ok |-> tasks[k].res.ok, hit |-> tasks[k].hit]
    /\ tasks' = Remove(tasks, k)
    /\ UNCHANGED <<build, codec, xpub_input, current_page, LAST_REQUEST, sinceReturn,
                   lastGap, env>>

\* update, Message::BalanceResult, for the finished future k
BalanceResult(k) ==
    /\ tasks[k].pc = "done"
    /\ loading' = FALSE
    /\ IF tasks[k].res.ok
       THEN /\ total_addresses_checked' = total_addresses_checked + Len(tasks[k].res.val)
            /\ balances' = balances \o tasks[k].res.val
            /\ has_more' = IF build = "main" THEN HasMoreAfterOk(tasks[k].end_idx)
                           ELSE has_more
            /\ UNCHANGED error
       ELSE /\ error' = SomeError(tasks[k].res.err)
            /\ UNCHANGED <<total_addresses_checked, balances, has_more>>
    /\ lastDone' = [start_idx |-> tasks[k].start_idx, end_idx |-> tasks[k].end_idx,
                    ok |-> tasks[k].res.ok, hit |-> tasks[k].hit]
    /\ tasks' = Remove(tasks, k)
    /\ UNCHANGED <<build, codec, xpub_input, current_page, LAST_REQUEST, sinceReturn,
                   lastGap, env>>

(***************************************************************************)
(* check_balances and enforce_rate_limit                                   *)
(***************************************************************************)
\* u64::saturating_sub
saturating_sub(a, b) == IF a > b THEN a - b ELSE 0

\* Which key an extended key holds: a number drawn from all of its material.
KeyId(material) == Sha256d4(material)[1] * 256 + Sha256d4(material)[2]

\* Address::p2wpkh of the key derived at m/chain/index
DeriveAddress(t, chain, index) ==
    [network |-> t.network, key |-> t.key, chain |-> chain, index |-> index]

\* The change index of a page
ChangeIndex(start_idx) == start_idx \div 10

\* The HTTP GET of the balance query for the coordinate t is at goes out.
SendQuery(t) ==
    [t EXCEPT !.pc = "query", !.queries = @ + 1,
              !.attempts = Append(@, ProviderUrl(build, t.network))]

\* A check_balances that takes a rate slot for the first address of a page
\* only and queries the others straight after deriving them.
EnterRateLimitFirstOnly(t, chain, index) ==
    LET last == LAST_REQUEST
        now == InstantNowElapsedMs
        elapsed == saturating_sub(now, last)
        t1 == [t EXCEPT !.chain = chain, !.i = index, !.now = now,
                        !.acquires = @ + 1, !.attempts = <<>>]
    IN IF t.acquires > 0
       THEN [task |-> SendQuery([t EXCEPT !.chain = chain, !.i = index,
                                          !.attempts = <<>>]),
             returned |-> FALSE]
       ELSE IF elapsed < MIN_REQUEST_INTERVAL
       THEN [task |-> [t1 EXCEPT !.pc = "sleep", !.rem = MIN_REQUEST_INTERVAL - elapsed],
             returned |-> FALSE]
       ELSE [task |-> SendQuery(t1), returned |-> TRUE]

\* enforce_rate_limit up to its await, entered by task t for the coordinate
\* (chain, index): the load, the clock, and the sleep if there is one.
EnterRateLimit(t, chain, index) ==
    LET last == LAST_REQUEST
        now == InstantNowElapsedMs
        elapsed == saturating_sub(now, last)
        t1 == [t EXCEPT !.chain = chain, !.i = index, !.now = now,
                        !.acquires = @ + 1, !.attempts = <<>>]
    IN IF elapsed < MIN_REQUEST_INTERVAL
       THEN [task |-> [t1 EXCEPT !.pc = "sleep", !.rem = MIN_REQUEST_INTERVAL - elapsed],
             returned |-> FALSE]
       ELSE [task |-> SendQuery(t1), returned |-> TRUE]

\* The effect of r == EnterRateLimit(...) for task k on the shared state.
Entered(k, r) ==
    /\ tasks' = [tasks EXCEPT ![k] = r.task]
    /\ IF r.returned
       THEN /\ LAST_REQUEST' = r.task.now
            /\ lastGap' = sinceReturn
            /\ sinceReturn' = 0
       ELSE UNCHANGED <<LAST_REQUEST, lastGap, sinceReturn>>

Finish(k, t, res) == tasks' = [tasks EXCEPT ![k] = [t EXCEPT !.pc = "done", !.res = res]]

\* check_balances taking its rate slot before it looks at the key.
TaskStartAcquireFirst(k) ==
    /\ tasks[k].pc = "start"
    /\ Entered(k, EnterRateLimit(tasks[k], 0, tasks[k].start_idx))
    /\ UNCHANGED <<build, codec, appVars, lastDone, env>>

\* check_balances from its first line to its first await
TaskStart(k) ==
    /\ tasks[k].pc = "start"
    /\ LET t == tasks[k]
           n == Normalize(build, Typed(t.xpub))
           x == IF n.ok THEN ExtendedPubKey_from_str(n.val.xpub_to_use) ELSE Err(n.err)
       IN IF ~x.ok
          THEN /\ Finish(k, [t EXCEPT !.parsed = "failed"], Err(x.err))
               /\ UNCHANGED <<LAST_REQUEST, lastGap, sinceReturn>>
          ELSE Entered(k, EnterRateLimit(
                   [t EXCEPT !.network = n.val.network,
                             !.key = KeyId(x.val.material), !.parsed = "ok"],
                   0, t.start_idx))
    /\ UNCHANGED <<build, codec, appVars, lastDone, env>>

\* enforce_rate_limit after its sleep: the store, and the return
RateLimitWake(k) ==
    /\ tasks[k].pc = "sleep"
    /\ tasks[k].rem = 0
    /\ tasks' = [tasks EXCEPT ![k] = SendQuery(@)]
    /\ LAST_REQUEST' = tasks[k].now
    /\ lastGap' = sinceReturn
    /\ sinceReturn' = 0
    /\ UNCHANGED <<build, codec, appVars, lastDone, env>>

\* check_balances with the rate-limit arm left out: every error is returned.
OnQueryErrorAlwaysErr(t, e) == Err(e)

\* What check_balances does with an error of the balance query
OnQueryError(t, e) ==
    IF IsRateLimitError(e) THEN Ok(t.balances) ELSE Err(e)

\* The walk of a page that skips what lies beyond 46 external addresses.
NextCoordinateBounded(t) ==
    IF t.chain = 0
    THEN IF t.i + 1 < t.end_idx /\ t.i + 1 < 46 THEN <<0, t.i + 1>>
         ELSE <<1, t.start_idx \div 10>>
    ELSE <<>>

\* The walk of a page that leaves out the change address.
NextCoordinateNoChange(t) ==
    IF t.chain = 0 /\ t.i + 1 < t.end_idx THEN <<0, t.i + 1>> ELSE <<>>

\* A balance layer that asks again, up to three times, when the answer is a
\* rate-limit error.
AfterQueryErrorRetrying(t, e) ==
    IF IsRateLimitError(e) /\ Len(t.attempts) < 3
    THEN SendQuery(t)
    ELSE [t EXCEPT !.pc = "done", !.res = OnQueryError(t, e)]

\* check_balances after an error of the balance query: it returns.
AfterQueryError(t, e) == [t EXCEPT !.pc = "done", !.res = OnQueryError(t, e)]

\* The coordinate after (chain, i) of the page of t, or <<>> after the last
NextCoordinate(t) ==
    IF t.chain = 0
    THEN IF t.i + 1 < t.end_idx THEN <<0, t.i + 1>> ELSE <<1, ChangeIndex(t.start_idx)>>
    ELSE <<>>

\* Whether the build checks integer overflow: either, where it matters.
OverflowChecks(b, resp) ==
    IF b = "lib" /\ resp = "overspent" THEN BOOLEAN ELSE {FALSE}

\* The answer to the balance query of task k arrives; check_balances runs
\* on to its next await or to its return, or its future panics.
QueryReturns(k, resp) ==
    /\ tasks[k].pc = "query"
    /\ resp \in OddResponses => env.odd > 0
    /\ resp \notin OddResponses \cup {"stats"} => env.fails > 0
    /\ env' = IF resp \in OddResponses THEN [env EXCEPT !.odd = @ - 1]
              ELSE IF resp # "stats" THEN [env EXCEPT !.fails = @ - 1]
              ELSE env
    /\ \E overflow_checks \in OverflowChecks(build, resp) :
         LET t == [tasks[k] EXCEPT !.answer = resp,
                                   !.odd = IF resp \in OddResponses THEN resp ELSE @]
             address == DeriveAddress(t, t.chain, t.i)
             r == QueryBalance(build, address, resp, overflow_checks)
         IN IF Panicked(r)
            THEN /\ tasks' = [tasks EXCEPT ![k] = [t EXCEPT !.pc = "panicked"]]
                 /\ UNCHANGED <<LAST_REQUEST, lastGap, sinceReturn>>
            ELSE IF ~r.ok
            THEN /\ tasks' = [tasks EXCEPT ![k] =
                                AfterQueryError([t EXCEPT !.hit = IF IsRateLimitError(r.err)
                                                                  THEN t.acquires ELSE 0],
                                                r.err)]
                 /\ UNCHANGED <<LAST_REQUEST, lastGap, sinceReturn>>
            ELSE LET t1 == [t EXCEPT !.balances = Append(@,
                                [address |-> address, balance |-> r.val,
                                 derivation_path |-> <<t.chain, t.i>>])]
                     c == NextCoordinate(t)
                 IN IF c = <<>>
                    THEN /\ Finish(k, t1, Ok(t1.balances))
                         /\ UNCHANGED <<LAST_REQUEST, lastGap, sinceReturn>>
                    ELSE Entered(k, EnterRateLimit(t1, c[1], c[2]))
    /\ UNCHANGED <<build, codec, appVars, lastDone>>

\* Time passes: sleeps run down, the last return gets older.
Tick ==
    /\ \/ \E k \in 1..Len(tasks) : tasks[k].pc = "sleep" /\ tasks[k].rem > 0
       \/ (sinceReturn >= 0 /\ sinceReturn < MIN_REQUEST_INTERVAL)
    /\ tasks' = [k \in 1..Len(tasks) |->
                    IF tasks[k].pc = "sleep"
                    THEN [tasks[k] EXCEPT !.rem = saturating_sub(@, TickMs)]
                    ELSE tasks[k]]
    /\ sinceReturn' = IF sinceReturn < 0 THEN sinceReturn
                      ELSE IF sinceReturn + TickMs > MIN_REQUEST_INTERVAL
                      THEN MIN_REQUEST_INTERVAL ELSE sinceReturn + TickMs
    /\ UNCHANGED <<build, codec, appVars, LAST_REQUEST, lastGap, lastDone, env>>

Next ==
    \/ \E value \in TypedNames : XpubInputChanged(value)
    \/ CheckBalance
    \/ LoadMore
    \/ \E k \in 1..Len(tasks) : BalanceResult(k)
    \/ \E k \in 1..Len(tasks) : TaskStart(k)
    \/ \E k \in 1..Len(tasks) : RateLimitWake(k)
    \/ \E k \in 1..Len(tasks), resp \in Responses : QueryReturns(k, resp)
    \/ Tick

Spec == Init /\ [][Next]_vars

SpecPaging == InitPaging /\ [][Next]_vars

SpecRace == InitRace /\ [][Next]_vars

SpecStale == InitStale /\ [][Next]_vars

SpecOdd == InitOdd /\ [][Next]_vars

(***************************************************************************)
(* The normalisation alone: one key in, one result out                     *)
(***************************************************************************)
CodecInit ==
    /\ Constructed
    /\ \E k \in TypedKeys : codec = [pc |-> "typed", input |-> k]
    /\ env = [checks |-> 0, edits |-> 0, fails |-> 0, pages |-> 0, odd |-> 0]

\* check_balances up to the construction of the extended key
CodecNormalize ==
    /\ codec.pc = "typed"
    /\ LET r == Normalize(build, codec.input)
       IN codec' = [pc |-> "normalized", input |-> codec.input, out |-> r,
                    key |-> IF r.ok THEN ExtendedPubKey_from_str(r.val.xpub_to_use)
                            ELSE Err(r.err)]
    /\ UNCHANGED <<build, appVars, tasks, LAST_REQUEST, sinceReturn, lastGap, lastDone, env>>

CodecNext == CodecNormalize

SpecCodec == CodecInit /\ [][CodecNext]_vars

(***************************************************************************)
(* The balance computation alone: two totals in, one balance out           *)
(***************************************************************************)
BalanceInit ==
    /\ Constructed
    /\ \E f \in U64Samples, s \in U64Samples, oc \in BOOLEAN :
           codec = [pc |-> "stats", funded_txo_sum |-> f, spent_txo_sum |-> s,
                    overflow_checks |-> oc]
    /\ env = [checks |-> 0, edits |-> 0, fails |-> 0, pages |-> 0, odd |-> 0]

\* get_address_balance / get_testnet_address_balance from the parsed answer on
BalanceCompute ==
    /\ codec.pc = "stats"
    /\ codec' = [codec EXCEPT !.pc = "balance"] @@
                 [out |-> balance_satoshis(build, codec.funded_txo_sum,
                                           codec.spent_txo_sum, codec.overflow_checks)]
    /\ UNCHANGED <<build, appVars, tasks, LAST_REQUEST, sinceReturn, lastGap, lastDone, env>>

BalanceNext == BalanceCompute

SpecBalance == BalanceInit /\ [][BalanceNext]_vars

(***************************************************************************)
(* Properties                                                              *)
(***************************************************************************)
\* The j-th coordinate of the page of t in derivation order.
Coordinate(t, j) ==
    IF j <= t.end_idx - t.start_idx THEN <<0, t.start_idx + j - 1>>
    ELSE <<1, t.start_idx \div 10>>

InOrder(t, bals) ==
    \A j \in 1..Len(bals) : bals[j].derivation_path = Coordinate(t, j)

Task(k) == tasks[k]
TaskIds == 1..Len(tasks)

\* C1: a rate-limit-classified error at the k-th coordinate of a page makes
\* check_balances return Ok with exactly the balances of the k-1 coordinates
\* before it, in derivation order, after k acquires and k queries and no more.
C1_RateLimitStopsPage ==
    \A k \in TaskIds :
        Task(k).hit > 0 =>
            /\ Task(k).pc = "done"
            /\ Task(k).res.ok
            /\ Len(Task(k).res.val) = Task(k).hit - 1
            /\ InOrder(Task(k), Task(k).res.val)
            /\ Task(k).acquires = Task(k).hit
            /\ Task(k).queries = Task(k).hit

C1_Witness ==
    \E k \in TaskIds :
        /\ Task(k).hit > 1
        /\ Task(k).pc = "done"
        /\ Len(Task(k).res.val) = Task(k).hit - 1

\* C2: an error result (a page-level error with no results) is produced only
\* when nothing of the page had been accumulated; a fatal query error after
\* the first balance still hands the accumulated balances to the caller.
C2_ErrorOnlyWithoutResults ==
    \A k \in TaskIds :
        (Task(k).pc = "done" /\ ~Task(k).res.ok) => Task(k).balances = <<>>

\* C3: HTTP 429 for an address in the middle of a page gives the partial
\* results collected before that address, not an error that discards them.
C3_Http429KeepsPartial ==
    \A k \in TaskIds :
        (Task(k).pc = "done" /\ Task(k).answer = "http429" /\ Task(k).balances # <<>>)
            => (Task(k).res.ok /\ Task(k).res.val = Task(k).balances)

\* C4: any two returns of enforce_rate_limit, by whichever callers, are at
\* least MIN_REQUEST_INTERVAL apart.
C4_ReturnsSpaced == lastGap = -1 \/ lastGap >= MIN_REQUEST_INTERVAL

AllSucceeded(t) == t.pc = "done" /\ t.res.ok /\ t.answer = "stats"

\* C7 as stated: a page (start, end) in which every query succeeds has exactly
\* end - start entries.
C7_EndMinusStartEntries ==
    \A k \in TaskIds :
        AllSucceeded(Task(k)) => Len(Task(k).res.val) = Task(k).end_idx - Task(k).start_idx

\* C7 as amended: such a page has exactly end - start + 1 entries: one per
\* external index in index order, then the change address m/1/(start / 10).
C7_ExternalsThenChange ==
    \A k \in TaskIds :
        AllSucceeded(Task(k)) =>
            /\ Len(Task(k).res.val) = Task(k).end_idx - Task(k).start_idx + 1
            /\ InOrder(Task(k), Task(k).res.val)

C7_Witness ==
    \E k \in TaskIds :
        /\ AllSucceeded(Task(k))
        /\ Task(k).start_idx = 0
        /\ Task(k).end_idx = 10
        /\ Len(Task(k).res.val) = 11

\* The normalisation has run on a vpub that passed its decode and length check.
Converted == codec.pc = "normalized" /\ codec.input.prefix = "vpub" /\ codec.out.ok

ConvertedRaw == codec.out.val.xpub_to_use.raw

\* C8: for a vpub whose base58check payload is 78 bytes the converted string
\* decodes to the tpub version followed by bytes 4..78 of the input's payload.
C8_KeyMaterialKept ==
    (/\ codec.pc = "normalized"
     /\ codec.input.prefix = "vpub"
     /\ base58_from_check(codec.input).ok
     /\ Len(base58_from_check(codec.input).val) = 78)
        => /\ codec.out.ok
           /\ base58_from_check(codec.out.val.xpub_to_use).ok
           /\ base58_from_check(codec.out.val.xpub_to_use).val
                = TPUB_VERSION \o SubSeq(base58_from_check(codec.input).val, 5, 78)

\* C9 as stated: the converted string is 82 raw bytes and bytes[78..82] is
\* the checksum of bytes[0..78], for every well-formed (base58check) vpub
\* that passed the length check.
C9_EightyTwoBytesChecksummed ==
    (Converted /\ base58_from_check(codec.input).ok) =>
        /\ Len(ConvertedRaw) = 82
        /\ SubSeq(ConvertedRaw, 79, 82) = Sha256d4(SubSeq(ConvertedRaw, 1, 78))

\* C9 as amended: the converted string has as many raw bytes as the input and
\* ends in the checksum of all bytes before it; for an input of 82 raw bytes
\* that is 82 bytes with bytes[78..82] the checksum of bytes[0..78].
C9_ChecksumOfAllBefore ==
    Converted =>
        /\ Len(ConvertedRaw) = Len(codec.input.raw)
        /\ SubSeq(ConvertedRaw, Len(ConvertedRaw) - 3, Len(ConvertedRaw))
             = Sha256d4(SubSeq(ConvertedRaw, 1, Len(ConvertedRaw) - 4))
        /\ SubSeq(ConvertedRaw, 1, 4) = TPUB_VERSION

C9_Witness ==
    /\ Converted
    /\ Len(codec.input.raw) = 82
    /\ Len(ConvertedRaw) = 82
    /\ SubSeq(ConvertedRaw, 79, 82) = Sha256d4(SubSeq(ConvertedRaw, 1, 78))

\* The typed key is a vpub that must be rejected: its checksum does not match
\* or it decodes to fewer than 78 bytes.
BadVpub(xpub) ==
    /\ xpub.prefix = "vpub"
    /\ \/ ~base58_from_check(xpub).ok
       \/ Len(xpub.raw) < 78

\* C10: a vpub with a wrong checksum or of fewer than 78 decoded bytes is
\* rejected before any address is derived, any rate-limit acquire and any
\* query.
C10_BadVpubRejected ==
    \A k \in TaskIds :
        BadVpub(Typed(Task(k).xpub)) =>
            /\ Task(k).acquires = 0
            /\ Task(k).pc = "done" => ~Task(k).res.ok

\* C11: for an input that starts with neither xpub nor vpub, and for an input
\* whose extended-key parsing fails, check_balances returns an error without
\* having called enforce_rate_limit or queried any balance.
C11_ParseFailureBeforeNetwork ==
    \A k \in TaskIds :
        /\ TypedPrefix(Task(k).xpub) \notin {"xpub", "vpub"} =>
               Task(k).parsed # "ok"
        /\ Task(k).parsed # "ok" =>
               /\ Task(k).acquires = 0
               /\ Task(k).queries = 0
               /\ Task(k).pc \in {"start", "done"}
               /\ (Task(k).pc = "start") <=> (Task(k).parsed = "not yet")
               /\ Task(k).pc = "done" => ~Task(k).res.ok

C11_Witness ==
    \E k \in TaskIds :
        /\ Task(k).xpub = "ypub1234"
        /\ Task(k).pc = "done"
        /\ ~Task(k).res.ok
        /\ Task(k).queries = 0

\* max(funded - spent, 0) in satoshis
MaxDiffOrZero(funded, spent) ==
    IF u64_lt(funded, spent) THEN u64_ZERO ELSE u64_wrapping_sub(funded, spent)

\* C12: for every pair (funded, spent) of u64 totals the balance computed is
\* max(funded - spent, 0) satoshis (divided by 100_000_000): the computation
\* does not abort and does not wrap around, also when spent > funded.
C12_BalanceFlooredAtZero ==
    codec.pc = "balance" =>
        /\ ~codec.out.panic
        /\ codec.out.val = MaxDiffOrZero(codec.funded_txo_sum, codec.spent_txo_sum)

\* The check_balances tasks that are between their first acquire and their
\* return.
Running == {k \in TaskIds : Task(k).pc \in {"sleep", "query"}}

\* C13: at most one check_balances task is in flight; no sequence of
\* XpubInputChanged, CheckBalance and LoadMore starts a second one while one
\* is still running.
C13_OneTaskInFlight == Cardinality(Running) <= 1

ExternalIndices ==
    {balances[j].derivation_path[2] :
        j \in {n \in 1..Len(balances) : balances[n].derivation_path[1] = 0}}

\* C15: when no request is in flight the external indices present in the
\* accumulated balances form a gap-free prefix 0..n-1: what a page that
\* stopped early left unfetched is covered by the next LoadMore.
C15_GapFreePrefix ==
    (tasks = <<>> /\ ~loading) =>
        ExternalIndices = 0..(Cardinality(ExternalIndices) - 1)

\* C16: after a page was cut short in its middle by a rate-limit error the
\* error field is set (a notice is shown) and the balances found are kept;
\* the cut is not reported as a plain success.
C16_ExhaustionNoticed ==
    lastDone.hit > 1 =>
        /\ error # <<>>
        /\ Len(balances) >= lastDone.hit - 1

\* The step is update handling a BalanceResult(Err): a future leaves the
\* runtime and the result it carried was an error.
HandlesErr == Len(tasks') = Len(tasks) - 1 /\ ~lastDone'.ok

\* C17: handling BalanceResult(Err) leaves the accumulated balances list and
\* total_addresses_checked as they were, sets the error field and clears
\* loading.
C17_ErrKeepsAccumulated ==
    [][HandlesErr =>
          /\ balances' = balances
          /\ total_addresses_checked' = total_addresses_checked
          /\ error' # <<>>
          /\ ~loading']_vars

C17_Witness ==
    /\ lastDone # NoRequest
    /\ ~lastDone.ok
    /\ lastDone.start_idx = 10
    /\ Len(balances) = 11
    /\ total_addresses_checked = 11
    /\ error # <<>>
    /\ ~loading

\* C18: within one check_balances call every balance query has its own
\* completed enforce_rate_limit call, made after the address was derived and
\* after the previous query returned (derive, acquire, query per coordinate),
\* and the coordinates are gone through in ascending index order.
C18_DeriveAcquireQuery ==
    \A k \in TaskIds :
        /\ Task(k).queries <= Task(k).acquires
        /\ Task(k).acquires <= Task(k).queries + 1
        /\ Task(k).pc = "sleep" =>
               /\ Task(k).acquires = Task(k).queries + 1
               /\ Len(Task(k).balances) = Task(k).queries
        /\ Task(k).pc = "query" =>
               /\ Task(k).acquires = Task(k).queries
               /\ Len(Task(k).balances) = Task(k).queries - 1
        /\ Task(k).pc \in {"sleep", "query"} =>
               <<Task(k).chain, Task(k).i>> = Coordinate(Task(k), Task(k).acquires)
        /\ \A j \in 1..Len(Task(k).balances) :
               /\ Task(k).balances[j].derivation_path = Coordinate(Task(k), j)
               /\ (j > 1 /\ Task(k).balances[j].derivation_path[1] = 0) =>
                      Task(k).balances[j].derivation_path[2]
                          = Task(k).balances[j - 1].derivation_path[2] + 1

C18_Witness ==
    \E k \in TaskIds :
        /\ Task(k).pc = "query"
        /\ Task(k).chain = 1
        /\ Task(k).acquires = 11
        /\ Task(k).queries = 11
        /\ Len(Task(k).balances) = 10

\* C19: every balance query goes to an endpoint of the network the addresses
\* were encoded for: the mainnet endpoint for an xpub key, a testnet endpoint
\* for a vpub key.
C19_EndpointOfKeyNetwork ==
    \A k \in TaskIds :
        \A j \in 1..Len(Task(k).attempts) :
            NetworkOf(Task(k).attempts[j]) = Task(k).network

\* C20: enforce_rate_limit suspends its caller only if necessary: a call made
\* when MIN_REQUEST_INTERVAL or more has passed since the previous return
\* does not sleep, and a call that sleeps sleeps no longer than what is left
\* of the interval.
C20_SuspendsOnlyIfNecessary ==
    \A k \in TaskIds :
        (Task(k).pc = "sleep" /\ sinceReturn >= 0) =>
            sinceReturn + Task(k).rem <= MIN_REQUEST_INTERVAL

\* C21: within one session no address is fetched twice: the accumulated
\* balances list never holds two entries with the same derivation path.
C21_NoPathTwice ==
    \A i \in 1..Len(balances) : \A j \in 1..Len(balances) :
        balances[i].derivation_path = balances[j].derivation_path => i = j

\* C24: total_addresses_checked equals the number of entries in balances in
\* every reachable state.
C24_TotalIsListLength == total_addresses_checked = Len(balances)

C24_Witness ==
    /\ total_addresses_checked = 22
    /\ Len(balances) = 22
    /\ lastDone.ok
    /\ lastDone.start_idx = 10

\* The network and key check_balances gets from what is typed, if any.
KeyOfTyped(name) ==
    LET n == Normalize(build, Typed(name))
        x == IF n.ok THEN ExtendedPubKey_from_str(n.val.xpub_to_use) ELSE Err(n.err)
    IN IF x.ok THEN [network |-> n.val.network, key |-> KeyId(x.val.material)]
       ELSE [network |-> "none", key |-> 0]

\* C23: every entry of the balances list was derived from the key xpub_input
\* holds now; the result of a request started before the list was cleared
\* is not appended when it arrives.
C23_BalancesOfCurrentKey ==
    \A j \in 1..Len(balances) :
        /\ balances[j].address.key = KeyOfTyped(xpub_input).key
        /\ balances[j].address.network = KeyOfTyped(xpub_input).network

\* C22: a 2xx answer whose body lacks the two totals of chain_stats, or holds
\* a total that is not an integer, ends the request with a query error: the
\* request does not go on to report a balance for that address.
C22_MalformedTotalsAreErrors ==
    \A k \in TaskIds :
        Task(k).odd \in {"nofields", "noninteger"} =>
            /\ Task(k).pc = "done"
            /\ ~Task(k).res.ok

\* C25: no request started by CheckBalance or LoadMore ends without a
\* result to deliver while the application is loading: the future of every
\* request runs on to a BalanceResult, which sets loading back to false.
C25_NoRequestEndsWithoutResult ==
    \A k \in TaskIds : ~(Task(k).pc = "panicked" /\ loading)

====
